---- MODULE Spec2Model ----
(***************************************************************************)
(* jira2confluence-gantt: the configuration is loaded, then for every      *)
(* project the tickets are fetched, filtered and sorted, the task tree is  *)
(* built ticket by ticket, the gantt is generated from the pre-ordered     *)
(* tasks and the report is published.                                      *)
(*                                                                         *)
(* The tree is an arena: tasks.parent and tasks.children hold the two      *)
(* directions of the anytree links, maintained separately as NodeMixin     *)
(* does (detach from the old parent, attach to the new one).               *)
(***************************************************************************)
EXTENDS Integers, Sequences, FiniteSets, TLC

\* ------------------------------------------------------------------ bounds
\* Longest "subtasks" list a ticket declares.
MaxSubtasks == 2
\* Longest "issuelinks" list a ticket carries.
MaxLinks == 2
\* Number of projects of the configurations whose engines vary.
NumProjects == 2
\* Longest list of custom fields the Jira server has.
MaxFields == 2

\* ------------------------------------------------------------------ values
\* Python None, for keys and names.
None == "None"
\* The TaskList node, root of the forest.
ROOT == "TaskList"
\* Keys of the tickets the ticket source knows, in the order it returns them.
FetchOrder == <<"A", "B", "C">>
Keys == {FetchOrder[n] : n \in 1..Len(FetchOrder)}
\* A key no ticket of the ticket source has.
Foreign == "X"
\* Key of a Task built outside the pipeline.
Extra == "Z"
Nodes == Keys \cup {Extra, ROOT}

\* A field of ticket["fields"]: missing, JSON null, a string or a number.
Absent == [kind |-> "absent", val |-> <<>>]
Null == [kind |-> "null", val |-> <<>>]
Str(chars) == [kind |-> "str", val |-> chars]
Num(n) == [kind |-> "num", val |-> <<n>>]
\* dict.get(field): None when the field is missing.
Get(v) == IF v.kind = "absent" THEN Null ELSE v

\* Two decimal digits of n, four decimal digits of n, as code points.
Digits2(n) == <<48 + (n \div 10), 48 + (n % 10)>>
Digits4(n) == Digits2(n \div 100) \o Digits2(n % 100)
\* ISO 8601 extended (YYYY-MM-DD) and basic (YYYYMMDD) texts of a date.
Extended(y, m, d) == Digits4(y) \o <<45>> \o Digits2(m) \o <<45>> \o Digits2(d)
Basic(y, m, d) == Digits4(y) \o Digits2(m) \o Digits2(d)
\* A text that is no date: "n/a".
NotADate == <<110, 47, 97>>

IsDigit(c) == c >= 48 /\ c <= 57
AllDigits(s) == \A n \in 1..Len(s) : IsDigit(s[n])
RECURSIVE ToInt(_)
ToInt(s) == IF s = <<>> THEN 0 ELSE 10 * ToInt(SubSeq(s, 1, Len(s) - 1)) + (s[Len(s)] - 48)

\* dateutil.parser.isoparse on the texts above: the date, or a ValueError.
NoDate == [ok |-> FALSE, year |-> 0, month |-> 0, day |-> 0]
isoparse(s) ==
    IF Len(s) = 10 /\ s[5] = 45 /\ s[8] = 45
       /\ AllDigits(SubSeq(s, 1, 4)) /\ AllDigits(SubSeq(s, 6, 7)) /\ AllDigits(SubSeq(s, 9, 10))
    THEN [ok |-> TRUE, year |-> ToInt(SubSeq(s, 1, 4)),
          month |-> ToInt(SubSeq(s, 6, 7)), day |-> ToInt(SubSeq(s, 9, 10))]
    ELSE IF Len(s) = 8 /\ AllDigits(s)
    THEN [ok |-> TRUE, year |-> ToInt(SubSeq(s, 1, 4)),
          month |-> ToInt(SubSeq(s, 5, 6)), day |-> ToInt(SubSeq(s, 7, 8))]
    ELSE NoDate

\* Order of two dates.
DateLess(a, b) ==
    \/ a.year < b.year
    \/ a.year = b.year /\ a.month < b.month
    \/ a.year = b.year /\ a.month = b.month /\ a.day < b.day

\* Python's < on str: by code point, a proper prefix first.
RECURSIVE StrLess(_, _)
StrLess(a, b) ==
    IF b = <<>> THEN FALSE
    ELSE IF a = <<>> THEN TRUE
    ELSE IF Head(a) # Head(b) THEN Head(a) < Head(b)
    ELSE StrLess(Tail(a), Tail(b))

\* ------------------------------------------------------------------ tree
\* A result of an operation on the tree: the tree and the exception raised.
Ok(t) == [tasks |-> t, raised |-> None]
Raise(t, e) == [tasks |-> t, raised |-> e]

\* TaskList(): a root without parent and without children; no Task yet.
TaskList ==
    [nodes |-> {},
     parent |-> [n \in Nodes |-> None],
     children |-> [n \in Nodes |-> <<>>],
     info |-> <<>>]

RemoveFrom(s, n) == SelectSeq(s, LAMBDA c : c # n)

\* The node, its parent, ... up to the root of its tree (iter_path_reverse).
RECURSIVE PathReverse(_, _)
PathReverse(t, n) ==
    IF t.parent[n] = None THEN {n} ELSE {n} \cup PathReverse(t, t.parent[n])

\* TaskList._pre_attach and TaskList._pre_detach raise; a Task has no hook.
\* (PreAttachNeverRaises: a TaskList without the hook.)
PreAttachNeverRaises(n) == FALSE
PreAttachRaises(n) == n = ROOT
PreDetachRaises(n) == n = ROOT

\* NodeMixin.__detach: leave the parent's children, lose the parent.
\* (DetachKeepingChild: the parent's child list is left as it was.)
DetachKeepingChild(t, n) == [t EXCEPT !.parent[n] = None]
Detach(t, n) ==
    LET p == t.parent[n]
    IN  [t EXCEPT !.children[p] = RemoveFrom(@, n), !.parent[n] = None]

\* NodeMixin.__attach: join the end of the parent's children.
\* (AttachFirst: join the front.)
AttachFirst(t, n, p) == [t EXCEPT !.children[p] = <<n>> \o @, !.parent[n] = p]
Attach(t, n, p) == [t EXCEPT !.children[p] = Append(@, n), !.parent[n] = p]

\* node.parent = value (NodeMixin.parent setter).
SetParent(t, n, value) ==
    IF t.parent[n] = value THEN Ok(t)
    ELSE IF value # None /\ n \in PathReverse(t, value) THEN Raise(t, "LoopError")
    ELSE IF t.parent[n] # None /\ PreDetachRaises(n) THEN Raise(t, "RuntimeError")
    ELSE LET d == IF t.parent[n] # None THEN Detach(t, n) ELSE t
         IN  IF value = None THEN Ok(d)
             ELSE IF PreAttachRaises(n) THEN Raise(d, "RuntimeError")
             ELSE Ok(Attach(d, n, value))

\* for child in kids: child.parent = value, up to the first exception.
RECURSIVE SetParentEach(_, _, _)
SetParentEach(t, kids, value) ==
    IF kids = <<>> THEN Ok(t)
    ELSE LET r == SetParent(t, Head(kids), value)
         IN  IF r.raised # None THEN r ELSE SetParentEach(r.tasks, Tail(kids), value)

\* (NeverDuplicates: the new children are not checked.)
NeverDuplicates(s) == FALSE
HasDuplicates(s) == \E a, b \in 1..Len(s) : a # b /\ s[a] = s[b]

\* node.children = kids (NodeMixin.children setter): the old children are
\* detached, the new ones attached in order; on an exception the old children
\* are set again and the exception is raised.
RECURSIVE SetChildren(_, _, _)
SetChildren(t, n, kids) ==
    IF HasDuplicates(kids) THEN Raise(t, "TreeError")
    ELSE LET old == t.children[n]
             cleared == SetParentEach(t, old, None)
             r == IF cleared.raised # None THEN cleared
                  ELSE SetParentEach(cleared.tasks, kids, n)
         IN  IF r.raised = None THEN r
             ELSE LET back == SetChildren(r.tasks, n, old)
                  IN  Raise(back.tasks, IF back.raised # None THEN back.raised ELSE r.raised)

\* Task.__init__: the fields, then the parent, then the children if any.
TaskInit(t, key, fields, parent, children) ==
    LET made == [t EXCEPT !.nodes = @ \cup {key},
                          !.info = (key :> fields) @@ @]
        placed == SetParent(made, key, parent)
    IN  IF placed.raised # None THEN placed
        ELSE IF children = <<>> THEN placed
        ELSE SetChildren(placed.tasks, key, children)

\* PreOrderIter from a node: the node, then each child's subtree, left to right.
RECURSIVE PreOrder(_, _)
RECURSIVE PreOrderAll(_, _)
\* (PreOrderAllRightToLeft: the last child's subtree first.)
PreOrderAllRightToLeft(t, kids) ==
    IF kids = <<>> THEN <<>>
    ELSE PreOrderAll(t, Tail(kids)) \o PreOrder(t, Head(kids))
PreOrderAll(t, kids) ==
    IF kids = <<>> THEN <<>>
    ELSE PreOrder(t, Head(kids)) \o PreOrderAll(t, Tail(kids))
PreOrder(t, n) == <<n>> \o PreOrderAll(t, t.children[n])

\* is_root: the node has no parent.
IsRoot(t, n) == t.parent[n] = None

\* TaskList.to_pre_order_list: the pre-order of the forest without its root.
to_pre_order_list(t) == SelectSeq(PreOrder(t, ROOT), LAMBDA n : ~IsRoot(t, n))

\* find_task_by_key: the Task of the forest with that key, or None.
find_task_by_key(t, key) ==
    IF \E n \in 1..Len(PreOrder(t, ROOT)) :
          ~IsRoot(t, PreOrder(t, ROOT)[n]) /\ PreOrder(t, ROOT)[n] = key
    THEN key ELSE None

\* ------------------------------------------------------------------ inputs
\* The chart engines ChartEngine names.
CONFLUENCE == "Confluence"
PLANT_UML == "PlantUML"
ChartEngine == {CONFLUENCE, PLANT_UML}

\* A project of the configuration file, defaults filled in (Report, Fields);
\* the start date and the end date are named by the fields' identifiers.
Project(engine, progress, link) ==
    [engine |-> engine, progress |-> progress, link |-> link,
     start_date |-> "customfield_10010", end_date |-> "duedate"]
DefaultProject == Project(CONFLUENCE, None, "is blocked by")

\* A ticket as the ticket source returns it.
Ticket(key, start, end, progress, parent, subtasks, issuelinks) ==
    [key |-> key, start |-> start, end |-> end, progress |-> progress,
     parent |-> parent, subtasks |-> subtasks, issuelinks |-> issuelinks]
\* An issue link: the inward label of its type and the inward issue's key,
\* None where the link has no type or no inward issue.
Link(inward, inwardIssue) == [inward |-> inward, inwardIssue |-> inwardIssue]

SeqsUpTo(S, n) == UNION {[1..m -> S] : m \in 0..n}

Position(k) == CHOOSE n \in 1..Len(FetchOrder) : FetchOrder[n] = k
\* The day of January 2024 on which the ticket at a fetch position starts
\* when its dates do not vary: the second ticket starts first.
StartDay(k) == ((Position(k) + 1) % Len(FetchOrder)) + 1
PlainStart(k) == Str(Extended(2024, 1, StartDay(k)))
PlainEnd(k) == Str(Extended(2024, 1, StartDay(k) + 7))

\* The key j places behind k in the fetch order, cyclically.
Other(k, j) == FetchOrder[((Position(k) - 1 + j) % Len(FetchOrder)) + 1]
Others == 1..(Len(FetchOrder) - 1)

\* Batches whose tickets declare any parent and any subtasks; the ticket
\* that starts first, for which no declared subtask has a Task yet, declares
\* at most one. ParentOnly: those of them in which no ticket declares a subtask.
StructShapes ==
    {[par |-> p, subs |-> s] : p \in {0} \cup Others, s \in SeqsUpTo(Others, MaxSubtasks)}
StructShapesOf(k) ==
    IF StartDay(k) = 1 THEN {shape \in StructShapes : Len(shape.subs) <= 1} ELSE StructShapes
StructTicket(k, shape) ==
    Ticket(k, PlainStart(k), PlainEnd(k), Absent,
           IF shape.par = 0 THEN None ELSE Other(k, shape.par),
           [n \in 1..Len(shape.subs) |-> Other(k, shape.subs[n])],
           <<>>)
StructBatches ==
    {[k \in Keys |-> StructTicket(k, f[k])] :
        f \in {g \in [Keys -> StructShapes] : \A k \in Keys : g[k] \in StructShapesOf(k)}}

\* Batches whose start and end values vary: missing, null, two ISO formats,
\* no date at all. The tickets fetched after the first declare it as parent,
\* and each is blocked by the one fetched before it.
StartValues ==
    {Absent, Null, Str(Extended(2024, 1, 1)), Str(Extended(2024, 1, 2)),
     Str(Basic(2024, 1, 1)), Str(NotADate)}
EndValues == {Null, Str(Extended(2024, 1, 5)), Str(Extended(2024, 1, 6))}
DatedShapes == {[start |-> s, end |-> e] : s \in StartValues, e \in EndValues}
DatedTicket(k, shape) ==
    Ticket(k, shape.start, shape.end, Absent,
           IF k = FetchOrder[1] THEN None ELSE FetchOrder[1],
           <<>>,
           IF k = FetchOrder[1] THEN <<>>
           ELSE <<Link("is blocked by", FetchOrder[Position(k) - 1])>>)
DatedBatches == {[k \in Keys |-> DatedTicket(k, f[k])] : f \in [Keys -> DatedShapes]}

\* Batches whose last ticket carries any links or any progress, and whose
\* first ticket may lack its start date.
Links ==
    {Link(l, i) : l \in {"is blocked by", "blocks", None},
                  i \in (Keys \ {FetchOrder[Len(FetchOrder)]}) \cup {Foreign, None}}
ProgressValues == {Absent, Null, Num(0), Num(50)}
LinkedTicket(k, s, pr, ls) ==
    IF k = FetchOrder[Len(FetchOrder)]
    THEN Ticket(k, PlainStart(k), PlainEnd(k), pr, None, <<>>, ls)
    ELSE IF k = FetchOrder[1]
    THEN Ticket(k, s, PlainEnd(k), Null, None, <<>>, <<>>)
    ELSE Ticket(k, PlainStart(k), PlainEnd(k), Num(100), None, <<>>, <<>>)
LinkedBatches ==
    {[k \in Keys |-> LinkedTicket(k, s, Absent, ls)] :
        s \in {Null, PlainStart(FetchOrder[1])}, ls \in SeqsUpTo(Links, MaxLinks)}
ProgressBatches ==
    {[k \in Keys |-> LinkedTicket(k, PlainStart(FetchOrder[1]), pr, <<>>)] :
        pr \in ProgressValues}

ParentOnlyBatches == {b \in StructBatches : \A k \in Keys : b[k].subtasks = <<>>}
PlainBatch == [k \in Keys |-> Ticket(k, PlainStart(k), PlainEnd(k), Absent, None, <<>>, <<>>)]

\* The entries of a configuration file, by project (0: none) and path.
Entry(n, path) == [project |-> n, path |-> path]
\* The entries a model requires: the fields declared without a default.
MandatoryPaths == {"name", "jql", "report", "report.space", "report.parent_page",
                   "fields", "fields.start_date", "fields.end_date"}
Mandatory(n) ==
    {Entry(0, "server"), Entry(0, "server.jira"), Entry(0, "projects")}
    \cup {Entry(m, path) : m \in 1..n, path \in MandatoryPaths}
\* The entry that names the Confluence server, None by default.
ConfluenceEntry == Entry(0, "server.confluence")
\* A file with every mandatory entry of n projects and the Confluence server.
FullFile(n) == Mandatory(n) \cup {ConfluenceEntry}
\* The entries an entry holds.
Within(path) ==
    CASE path = "server" -> {"server.jira", "server.confluence"}
      [] path = "report" -> {"report.space", "report.parent_page"}
      [] path = "fields" -> {"fields.start_date", "fields.end_date"}
      [] OTHER -> {}
\* The file without an entry and what the entry holds; without "projects"
\* no project is left.
Without(file, e) ==
    {f \in file :
        ~ \/ f = e
          \/ f.project = e.project /\ f.path \in Within(e.path)
          \/ e.path = "projects" /\ f.project > 0}

\* The Jira and Confluence servers as the run finds them: the custom fields
\* of Jira, the projects whose query fails, the projects whose parent page
\* Confluence does not have.
CustomField(id, name) == [id |-> id, name |-> name]
Remote(custom_fields, down, missing) ==
    [custom_fields |-> custom_fields, down |-> down, missing |-> missing]
Reachable == Remote(<<CustomField("customfield_10010", "Start date")>>, {}, {})

\* The inputs of a run: the projects of the configuration file, what the
\* ticket source holds, the servers and the entries written in the file.
Input(projects, issues) ==
    [projects |-> projects, issues |-> issues,
     written |-> FullFile(Len(projects)), servers |-> Reachable]

\* Configurations of several projects, the engines alternating.
MixedProjects ==
    [n \in 1..NumProjects |->
        Project(IF n % 2 = 1 THEN CONFLUENCE ELSE PLANT_UML, None, "is blocked by")]
\* A batch whose last ticket carries a start value that is no date.
FailingBatch ==
    [PlainBatch EXCEPT ![FetchOrder[Len(FetchOrder)]].start = Str(NotADate)]
\* Runs in which the query of any projects fails, the parent page of any
\* projects is missing, the Confluence server is named or not, or a start
\* value is no date.
ServerInputs ==
    {[Input(MixedProjects, PlainBatch) EXCEPT
         !.written = @ \ conf, !.servers = Remote(<<>>, down, missing)] :
        conf \in {{}, {ConfluenceEntry}},
        down \in SUBSET (1..NumProjects), missing \in SUBSET (1..NumProjects)}
    \cup {Input(MixedProjects, FailingBatch)}

\* Runs whose field names and custom fields vary: a name some custom fields
\* have, an identifier, an identifier that is also the name of a custom field.
FieldNames == {"Start date", "Progress", "customfield_10010"}
FieldIds == {"customfield_10010", "customfield_10011"}
CustomFields == {CustomField(id, name) : id \in FieldIds, name \in FieldNames}
FieldInputs ==
    {[Input(<<[DefaultProject EXCEPT !.start_date = sd, !.progress = pr]>>, PlainBatch)
         EXCEPT !.servers = Remote(cf, {}, {})] :
        sd \in FieldNames \cup {"duedate"}, pr \in {None, "Progress"},
        cf \in SeqsUpTo(CustomFields, MaxFields)}

\* Configuration files that lack one mandatory entry, with what it holds,
\* and the empty file.
FileInputs ==
    {[Input(MixedProjects, PlainBatch) EXCEPT !.written = Without(@ \ conf, e)] :
        e \in Mandatory(NumProjects), conf \in {{}, {ConfluenceEntry}}}
    \cup {[Input(MixedProjects, PlainBatch) EXCEPT !.written = {}]}

Inputs ==
    ServerInputs \cup FieldInputs \cup FileInputs
    \cup {Input(<<DefaultProject>>, b) : b \in StructBatches \cup DatedBatches}
    \cup {Input(<<Project(CONFLUENCE, None, l)>>, b) :
            l \in {"is blocked by", "blocks"}, b \in LinkedBatches}
    \cup {Input(<<Project(CONFLUENCE, pf, "is blocked by")>>, b) :
            pf \in {None, "customfield_10001"}, b \in ProgressBatches}
    \cup {Input([n \in 1..NumProjects |-> Project(e[n], None, "is blocked by")], PlainBatch) :
            e \in [1..NumProjects -> ChartEngine \cup {"Mermaid"}]}

\* ------------------------------------------------------------------ pipeline
\* load_global_config: Config.model_validate accepts a Report engine only if
\* ChartEngine names it.
\* (AnyEngineValid: an engine field typed str.)
AnyEngineValid(e) == TRUE
ValidEngine(e) == e \in ChartEngine
ModelValidate(projects) == \A n \in 1..Len(projects) : ValidEngine(projects[n].engine)

\* _has_start_and_end_dates: both values are there and are not None.
\* (has_start_date_only: the end value is not looked at.)
has_start_date_only(ticket) == Get(ticket.start) # Null
has_start_and_end_dates(ticket) == Get(ticket.start) # Null /\ Get(ticket.end) # Null

\* The sort key (start value, end value) of a ticket, compared as Python
\* compares two tuples of str.
KeyLess(x, y) ==
    \/ StrLess(x.start.val, y.start.val)
    \/ x.start.val = y.start.val /\ StrLess(x.end.val, y.end.val)

\* sorted(): stable, each ticket goes behind those that are not greater.
RECURSIVE sorted(_)
sorted(s) ==
    IF s = <<>> THEN <<>>
    ELSE LET x == s[Len(s)]
             front == sorted(SubSeq(s, 1, Len(s) - 1))
             keep == {n \in 1..Len(front) : ~KeyLess(x, front[n])}
             at == Cardinality(keep)
         IN  SubSeq(front, 1, at) \o <<x>> \o SubSeq(front, at + 1, Len(front))

\* What tickets_from_jql returns: the tickets in the ticket source's order.
Fetched(batch) == [n \in 1..Len(FetchOrder) |-> batch[FetchOrder[n]]]

\* _tickets_from_project after the query: filter, then sort.
tickets_from_project(batch) == sorted(SelectSeq(Fetched(batch), has_start_and_end_dates))

MapSeq(s, F(_)) == [n \in 1..Len(s) |-> F(s[n])]

\* The blocking tasks of a ticket: the inward issues of its links of the
\* configured type that are tickets of the list.
InTickets(tickets, key) == \E n \in 1..Len(tickets) : tickets[n].key = key
\* (blocking_tasks_unchecked: without the test on the list.)
blocking_tasks_unchecked(ticket, tickets, link_type) ==
    MapSeq(SelectSeq(ticket.issuelinks,
                     LAMBDA link : link.inward = link_type /\ link.inwardIssue # None),
           LAMBDA link : link.inwardIssue)
blocking_tasks(ticket, tickets, link_type) ==
    MapSeq(SelectSeq(ticket.issuelinks,
                     LAMBDA link : /\ link.inward = link_type
                                   /\ link.inwardIssue # None
                                   /\ InTickets(tickets, link.inwardIssue)),
           LAMBDA link : link.inwardIssue)

\* The parent of the Task of a ticket: the Task with the declared key when
\* the forest has one, else the forest's root.
\* (parent_always_root: no lookup; parent_found_or_none: no fallback to the root.)
parent_always_root(t, ticket) == ROOT
parent_found_or_none(t, ticket) ==
    IF ticket.parent # None THEN find_task_by_key(t, ticket.parent) ELSE None
\* (parent_or_first_task: without the declared parent, the first top-level Task.)
parent_or_first_task(t, ticket) ==
    LET found == IF ticket.parent # None THEN find_task_by_key(t, ticket.parent) ELSE None
    IN  IF found # None THEN found
        ELSE IF t.children[ROOT] # <<>> THEN t.children[ROOT][1] ELSE ROOT
parent_of(t, ticket) ==
    LET found == IF ticket.parent # None THEN find_task_by_key(t, ticket.parent) ELSE None
    IN  IF found = None THEN ROOT ELSE found

\* The children of the Task of a ticket: the Tasks the forest has for the
\* declared subtasks.
\* (no_children: the declared subtasks are not looked up.)
no_children(t, ticket) == <<>>
children_of(t, ticket) ==
    SelectSeq(ticket.subtasks, LAMBDA key : find_task_by_key(t, key) # None)

\* ticket["fields"].get(progress_field)
progress_of(ticket, project) ==
    IF project.progress = None THEN Null ELSE Get(ticket.progress)

\* One turn of the loop of _create_tasks_from_tickets.
\* (create_task_skipping: a ticket whose dates do not parse is passed over.)
create_task_skipping(t, ticket, tickets, project) ==
    LET start_date == isoparse(ticket.start.val)
        end_date == isoparse(ticket.end.val)
    IN  IF ~start_date.ok \/ ~end_date.ok THEN Ok(t)
        ELSE TaskInit(t, ticket.key,
                      [start_date |-> start_date, end_date |-> end_date,
                       progress_in_percent |-> progress_of(ticket, project),
                       blocking_tasks |-> blocking_tasks(ticket, tickets, project.link)],
                      parent_of(t, ticket), children_of(t, ticket))
create_task(t, ticket, tickets, project) ==
    LET start_date == isoparse(ticket.start.val)
        end_date == isoparse(ticket.end.val)
    IN  IF ~start_date.ok \/ ~end_date.ok THEN Raise(t, "ValueError")
        ELSE TaskInit(t, ticket.key,
                      [start_date |-> start_date, end_date |-> end_date,
                       progress_in_percent |-> progress_of(ticket, project),
                       blocking_tasks |-> blocking_tasks(ticket, tickets, project.link)],
                      parent_of(t, ticket), children_of(t, ticket))

\* JiraClient.custom_field_id_from_name: the identifier of the first custom
\* field with that name, the name itself when there is none.
\* (custom_field_id_last_match: the last custom field with that name.)
RECURSIVE custom_field_id_last_match(_, _)
custom_field_id_last_match(all_custom_fields, custom_field_name) ==
    IF all_custom_fields = <<>> THEN custom_field_name
    ELSE IF all_custom_fields[Len(all_custom_fields)].name = custom_field_name
    THEN all_custom_fields[Len(all_custom_fields)].id
    ELSE custom_field_id_last_match(SubSeq(all_custom_fields, 1, Len(all_custom_fields) - 1),
                                    custom_field_name)
RECURSIVE custom_field_id_from_name(_, _)
custom_field_id_from_name(all_custom_fields, custom_field_name) ==
    IF all_custom_fields = <<>> THEN custom_field_name
    ELSE IF Head(all_custom_fields).name = custom_field_name THEN Head(all_custom_fields).id
    ELSE custom_field_id_from_name(Tail(all_custom_fields), custom_field_name)

\* GlobalConfig.update_custom_fields: the start date and the end date of
\* every project, and its progress if it has one.
update_custom_fields(projects, all_custom_fields) ==
    [n \in 1..Len(projects) |->
        [projects[n] EXCEPT
            !.start_date = custom_field_id_from_name(all_custom_fields, @),
            !.end_date = custom_field_id_from_name(all_custom_fields, @),
            !.progress = IF @ # None
                         THEN custom_field_id_from_name(all_custom_fields, @) ELSE @]]

\* Config.model_validate on the entries: every required one is there.
\* (ServerPresent: the projects are not looked at.)
ServerPresent(entries, n) == Mandatory(0) \subseteq entries
RequiredPresent(entries, n) == Mandatory(n) \subseteq entries

\* GlobalConfig.confluence_client: a client for str(server.confluence),
\* "None" without the entry; the constructor refuses only an empty URL.
NoClient == [none |-> TRUE, url |-> "None"]
confluence_client(entries) ==
    [none |-> FALSE,
     url |-> IF ConfluenceEntry \in entries THEN "https://confluence" ELSE "None"]

\* ConfluenceClient.create_new_page for a project: the exception raised and
\* whether update_or_create was called. A request to the URL "None" fails
\* in page_exists.
\* (create_new_page_unchecked: page_exists is not asked.)
create_new_page_unchecked(client, servers, p) ==
    IF client.url = "None" THEN [raised |-> "MissingSchema", updated |-> FALSE]
    ELSE [raised |-> None, updated |-> TRUE]
create_new_page(client, servers, p) ==
    IF client.url = "None" THEN [raised |-> "MissingSchema", updated |-> FALSE]
    ELSE IF p \in servers.missing
    THEN [raised |-> "RuntimeError: Parent page not found", updated |-> FALSE]
    ELSE [raised |-> None, updated |-> TRUE]

\* An event of generate_all_reports: a stage of a project has finished.
Event(p, stage) == [project |-> p, stage |-> stage]

VARIABLES
    config,     \* the projects of the configuration file
    file,       \* the entries the configuration file has
    remote,     \* the Jira and Confluence servers
    issues,     \* the tickets the ticket source holds, by key
    pc,         \* where the run is
    project,    \* index of the project generate_all_reports is at
    tickets,    \* the list _tickets_from_project returned
    index,      \* position in tickets of the ticket the loop is at
    tasks,      \* the TaskList and its Tasks
    engine,     \* the report engine created, None before
    gantt,      \* the task list handed to the template
    queries,    \* projects for which tickets_from_jql was called
    calls,      \* projects for which create_new_page was called
    pages,      \* projects whose report was published
    events,     \* the stages finished, in order
    raised,     \* the exception that ended the run, None if none
    op,         \* the last operation applied to the tree from outside the run
    call,       \* the function called on its own and its arguments
    result      \* what that call returned or raised

\* The state of a run of main.
run == <<config, file, remote, issues, pc, project, tickets, index, tasks, engine,
         gantt, queries, calls, pages, events, raised, op>>
vars == <<run, call, result>>

\* No function was called on its own.
NoCall == [name |-> None]
NoResult == [raised |-> None]

Start(in) ==
    /\ config = in.projects
    /\ file = in.written
    /\ remote = in.servers
    /\ issues = in.issues
    /\ pc = "load"
    /\ project = 1
    /\ tickets = <<>>
    /\ index = 1
    /\ tasks = TaskList
    /\ engine = None
    /\ gantt = <<>>
    /\ queries = <<>>
    /\ calls = <<>>
    /\ pages = <<>>
    /\ events = <<>>
    /\ raised = None
    /\ op = None
    /\ call = NoCall
    /\ result = NoResult

Init == \E in \in Inputs : Start(in)

\* main: load_global_config, then update_custom_fields; a ValidationError
\* ends the run.
LoadGlobalConfig ==
    /\ UNCHANGED <<call, result>>
    /\ pc = "load"
    /\ IF RequiredPresent(file, Len(config)) /\ ModelValidate(config)
       THEN /\ config' = update_custom_fields(config, remote.custom_fields)
            /\ pc' = "fetch"
            /\ raised' = raised
       ELSE /\ config' = config
            /\ pc' = "exit"
            /\ raised' = "ValidationError"
    /\ UNCHANGED <<file, remote, issues, project, tickets, index, tasks, engine, gantt,
                   queries, calls, pages, events, op>>

\* The end of a turn of the loop of generate_all_reports: the next project
\* if there is one.
\* (NextProjectWithoutFetch: the tickets of the first project serve the next.)
NextProjectWithoutFetch ==
    IF project < Len(config)
    THEN /\ project' = project + 1
         /\ pc' = "build"
         /\ index' = 1
         /\ tasks' = TaskList
         /\ engine' = None
         /\ gantt' = <<>>
         /\ UNCHANGED tickets
    ELSE /\ pc' = "done"
         /\ UNCHANGED <<project, tickets, index, tasks, engine, gantt>>
NextProject ==
    IF project < Len(config)
    THEN /\ project' = project + 1
         /\ pc' = "fetch"
         /\ tickets' = <<>>
         /\ index' = 1
         /\ tasks' = TaskList
         /\ engine' = None
         /\ gantt' = <<>>
    ELSE /\ pc' = "done"
         /\ UNCHANGED <<project, tickets, index, tasks, engine, gantt>>

\* _tickets_from_project, then the TaskList() of _create_tasks_from_tickets;
\* a failure of the query ends the run.
\* (TicketsFromProjectContinuing: the failure is logged, the loop goes on.)
TicketsFromProjectContinuing ==
    /\ UNCHANGED <<call, result>>
    /\ pc = "fetch"
    /\ queries' = Append(queries, project)
    /\ IF project \in remote.down
       THEN /\ raised' = "HTTPError"
            /\ NextProject
            /\ UNCHANGED events
       ELSE /\ tickets' = tickets_from_project(issues)
            /\ index' = 1
            /\ tasks' = TaskList
            /\ events' = Append(events, Event(project, "fetch"))
            /\ pc' = "build"
            /\ raised' = raised
            /\ UNCHANGED <<project, engine, gantt>>
    /\ UNCHANGED <<config, file, remote, issues, calls, pages, op>>
TicketsFromProject ==
    /\ UNCHANGED <<call, result>>
    /\ pc = "fetch"
    /\ queries' = Append(queries, project)
    /\ IF project \in remote.down
       THEN /\ raised' = "HTTPError"
            /\ pc' = "exit"
            /\ UNCHANGED <<tickets, index, tasks, events>>
       ELSE /\ tickets' = tickets_from_project(issues)
            /\ index' = 1
            /\ tasks' = TaskList
            /\ events' = Append(events, Event(project, "fetch"))
            /\ pc' = "build"
            /\ raised' = raised
    /\ UNCHANGED <<config, file, remote, issues, project, engine, gantt, calls, pages, op>>

\* The loop of _create_tasks_from_tickets, one ticket; an exception ends the run.
CreateTask ==
    /\ UNCHANGED <<call, result>>
    /\ pc = "build"
    /\ index <= Len(tickets)
    /\ LET r == create_task(tasks, tickets[index], tickets, config[project])
       IN  /\ tasks' = r.tasks
           /\ raised' = r.raised
           /\ IF r.raised = None
              THEN index' = index + 1 /\ pc' = pc
              ELSE index' = index /\ pc' = "exit"
    /\ UNCHANGED <<config, file, remote, issues, project, tickets, engine, gantt,
                   queries, calls, pages, events, op>>

\* _create_tasks_from_tickets returns the forest.
ReturnTasks ==
    /\ UNCHANGED <<call, result>>
    /\ pc = "build"
    /\ index > Len(tickets)
    /\ pc' = "engine"
    /\ events' = Append(events, Event(project, "build"))
    /\ UNCHANGED <<config, file, remote, issues, project, tickets, index, tasks, engine,
                   gantt, queries, calls, pages, raised, op>>

\* _create_report_engine
CreateReportEngine ==
    /\ UNCHANGED <<call, result>>
    /\ pc = "engine"
    /\ IF config[project].engine = CONFLUENCE
       THEN engine' = "ConfluenceEngine" /\ pc' = "gantt" /\ raised' = raised
       ELSE IF config[project].engine = PLANT_UML
       THEN engine' = "PlantUMLEngine" /\ pc' = "gantt" /\ raised' = raised
       ELSE engine' = engine /\ pc' = "exit" /\ raised' = "ValueError"
    /\ UNCHANGED <<config, file, remote, issues, project, tickets, index, tasks, gantt,
                   queries, calls, pages, events, op>>

\* engine.generate_gantt: the pre-ordered tasks go to the template.
\* (GenerateGanttDetaching: every Task handed over is taken out of the tree.)
GenerateGanttDetaching ==
    /\ UNCHANGED <<call, result>>
    /\ pc = "gantt"
    /\ gantt' = to_pre_order_list(tasks)
    /\ tasks' = [tasks EXCEPT !.parent = [n \in Nodes |-> None],
                              !.children = [n \in Nodes |-> <<>>]]
    /\ pc' = "publish"
    /\ events' = Append(events, Event(project, "gantt"))
    /\ UNCHANGED <<config, file, remote, issues, project, tickets, index, engine,
                   queries, calls, pages, raised, op>>
GenerateGantt ==
    /\ UNCHANGED <<call, result>>
    /\ pc = "gantt"
    /\ gantt' = to_pre_order_list(tasks)
    /\ pc' = "publish"
    /\ events' = Append(events, Event(project, "gantt"))
    /\ UNCHANGED <<config, file, remote, issues, project, tickets, index, tasks, engine,
                   queries, calls, pages, raised, op>>

\* engine.publish_report: nothing without a client, else create_new_page,
\* whose exception ends the run.
PublishReport ==
    /\ UNCHANGED <<call, result>>
    /\ pc = "publish"
    /\ LET client == confluence_client(file)
       IN  IF client.none
           THEN /\ events' = Append(events, Event(project, "publish"))
                /\ NextProject
                /\ UNCHANGED <<calls, pages, raised>>
           ELSE LET r == create_new_page(client, remote, project)
                IN  /\ calls' = Append(calls, project)
                    /\ pages' = IF r.updated THEN Append(pages, project) ELSE pages
                    /\ raised' = r.raised
                    /\ IF r.raised = None
                       THEN /\ events' = Append(events, Event(project, "publish"))
                            /\ NextProject
                       ELSE /\ pc' = "exit"
                            /\ UNCHANGED <<project, tickets, index, tasks, engine, gantt,
                                           events>>
    /\ UNCHANGED <<config, file, remote, issues, queries, op>>

Next ==
    \/ LoadGlobalConfig
    \/ TicketsFromProject
    \/ CreateTask
    \/ ReturnTasks
    \/ CreateReportEngine
    \/ GenerateGantt
    \/ PublishReport

Spec == Init /\ [][Next]_vars

\* ------------------------------------------------------------------ the tree from outside
\* The operations of task.py applied to a returned forest by a caller other
\* than generate_all_reports: a Task of its own, the root given a parent,
\* a Task given the root among its children.
ExtraFields ==
    [start_date |-> isoparse(Extended(2024, 1, 1)), end_date |-> isoparse(Extended(2024, 1, 2)),
     progress_in_percent |-> Num(0), blocking_tasks |-> <<>>]

\* Task(key, summary, start_date, end_date): no parent, no children.
NewDetachedTask ==
    /\ UNCHANGED <<call, result>>
    /\ pc = "engine"
    /\ Extra \notin tasks.nodes
    /\ tasks' = TaskInit(tasks, Extra, ExtraFields, None, <<>>).tasks
    /\ UNCHANGED <<config, file, remote, issues, pc, project, tickets, index, engine,
                   gantt, queries, calls, pages, events, raised, op>>

\* tasks.parent = value, value a Task
AssignRootParent ==
    /\ UNCHANGED <<call, result>>
    /\ pc = "engine"
    /\ \E value \in tasks.nodes :
          LET r == SetParent(tasks, ROOT, value)
          IN  /\ tasks' = r.tasks
              /\ raised' = r.raised
              /\ pc' = IF r.raised = None THEN pc ELSE "exit"
    /\ op' = "parent"
    /\ UNCHANGED <<config, file, remote, issues, project, tickets, index, engine, gantt,
                   queries, calls, pages, events>>

\* Task(key, ..., parent=value, children=kids), the root among kids
NewTaskWithRoot ==
    /\ UNCHANGED <<call, result>>
    /\ pc = "engine"
    /\ Extra \notin tasks.nodes
    /\ \E value \in tasks.nodes \cup {ROOT, None},
          kids \in SeqsUpTo(tasks.nodes \cup {ROOT}, MaxSubtasks) :
          /\ \E n \in 1..Len(kids) : kids[n] = ROOT
          /\ LET r == TaskInit(tasks, Extra, ExtraFields, value, kids)
             IN  /\ tasks' = r.tasks
                 /\ raised' = r.raised
                 /\ pc' = IF r.raised = None THEN pc ELSE "exit"
    /\ op' = "children"
    /\ UNCHANGED <<config, file, remote, issues, project, tickets, index, engine, gantt,
                   queries, calls, pages, events>>

InitApi == \E b \in ParentOnlyBatches : Start(Input(<<DefaultProject>>, b))

NextApi ==
    \/ Next
    \/ NewDetachedTask
    \/ AssignRootParent
    \/ NewTaskWithRoot

SpecApi == InitApi /\ [][NextApi]_vars

\* ------------------------------------------------------------------ properties
\* _create_tasks_from_tickets has returned the forest of the current project.
Returned == pc \in {"engine", "gantt", "publish", "done"}
\* The keys of the tickets _tickets_from_project retained.
Retained == {tickets[n].key : n \in 1..Len(tickets)}
\* Position of a retained ticket in the sorted list, the processing order.
Pos(k) == CHOOSE n \in 1..Len(tickets) : tickets[n].key = k
Elems(s) == {s[n] : n \in 1..Len(s)}
HasValue(v) == v.kind \notin {"absent", "null"}
\* The Tasks of the forest: those whose parent chain ends at the TaskList.
Forest == {n \in tasks.nodes : ROOT \in PathReverse(tasks, n)}
\* Some ticket of the batch lists k among its subtasks.
Listed(k) == \E q \in Keys : k \in Elems(issues[q].subtasks)
\* The forest as a structure: the parent and the children of every node
\* reachable from the TaskList.
Tree(t) ==
    [n \in Elems(PreOrder(t, ROOT)) |-> [parent |-> t.parent[n], children |-> t.children[n]]]

\* C1: every ticket _tickets_from_project retains, and so every Task built
\* from the list, has a start value and an end value that are present and
\* not null; a ticket missing either is not retained and yields no Task.
C1_TasksHaveBothDates ==
    \A k \in Retained \cup tasks.nodes :
        HasValue(issues[k].start) /\ HasValue(issues[k].end)
\* A forest was returned for a batch from which a ticket was dropped.
C1_Witness ==
    /\ Returned
    /\ tasks.nodes # {}
    /\ \E k \in Keys : ~HasValue(issues[k].end) /\ HasValue(issues[k].start) /\ k \notin tasks.nodes

\* C2 as claimed: in the returned forest a ticket whose declared parent is
\* processed after it is a top-level task and no child of that parent, also
\* when that parent lists it among its subtasks.
C2_ForwardParentIsTopLevel ==
    Returned =>
        \A x, p \in Retained :
            (issues[x].parent = p /\ Pos(x) < Pos(p)) =>
                (tasks.parent[x] = ROOT /\ tasks.parent[x] # p)
\* C2 amended: such a ticket is a top-level task unless a ticket processed
\* after it lists it among its subtasks, and it is a child of the declared
\* parent's Task only if that parent lists it among its subtasks.
C2_ForwardParentUnlessListed ==
    Returned =>
        \A x, p \in Retained :
            (issues[x].parent = p /\ Pos(x) < Pos(p)) =>
                /\ (\A q \in Retained : Pos(q) > Pos(x) => x \notin Elems(issues[q].subtasks))
                      => tasks.parent[x] = ROOT
                /\ x \notin Elems(issues[p].subtasks) => tasks.parent[x] # p
\* A forest with a top-level task whose declared parent came later, and
\* another whose later parent took it as a subtask.
C2_Witness ==
    /\ Returned
    /\ \E x, p \in Retained :
          /\ issues[x].parent = p /\ Pos(x) < Pos(p)
          /\ ~Listed(x)
          /\ tasks.parent[x] = ROOT
    /\ \E x, p \in Retained :
          /\ issues[x].parent = p /\ Pos(x) < Pos(p)
          /\ x \in Elems(issues[p].subtasks)
          /\ tasks.parent[x] = p

\* C3: every key of a Task's blocking_tasks is the inward issue of a link of
\* its ticket whose inward label is the configured one, and is the key of a
\* retained ticket.
C3_BlockingTasksResolved ==
    \A k \in tasks.nodes \cap Keys :
        \A b \in Elems(tasks.info[k].blocking_tasks) :
            /\ b \in Retained
            /\ \E n \in 1..Len(issues[k].issuelinks) :
                  /\ issues[k].issuelinks[n].inwardIssue = b
                  /\ issues[k].issuelinks[n].inward = config[project].link
\* A Task that kept one blocking key and lost the link to a dropped ticket.
C3_Witness ==
    /\ Returned
    /\ \E k \in tasks.nodes :
          /\ Len(tasks.info[k].blocking_tasks) = 1
          /\ \E n \in 1..Len(issues[k].issuelinks) :
                /\ issues[k].issuelinks[n].inward = config[project].link
                /\ issues[k].issuelinks[n].inwardIssue \in Keys \ Retained

\* C4: a node has a parent exactly when that parent's child list contains
\* it, once, for every Task and for the TaskList.
C4_ParentChildConsistent ==
    \A a, b \in Nodes :
        /\ (tasks.parent[a] = b) <=> (a \in Elems(tasks.children[b]))
        /\ ~HasDuplicates(tasks.children[b])
\* A Task moved from the TaskList under the Task of a later ticket.
C4_Witness ==
    \E a \in tasks.nodes :
        /\ tasks.parent[a] \in Keys
        /\ issues[a].parent # tasks.parent[a]
        /\ Len(tasks.children[ROOT]) >= 1

\* C5: to_pre_order_list holds every Task of the forest once and nothing
\* else, each Task behind its parent Task, the children of a node in the
\* order of its child list.
At(l, n) == CHOOSE m \in 1..Len(l) : l[m] = n
C5_PreOrderList ==
    LET l == to_pre_order_list(tasks)
    IN  /\ Len(l) = Cardinality(Forest)
        /\ Elems(l) = Forest
        /\ \A n \in Forest :
              tasks.parent[n] # ROOT => At(l, tasks.parent[n]) < At(l, n)
        /\ \A p \in Forest \cup {ROOT} :
              \A c, d \in 1..Len(tasks.children[p]) :
                  c < d => At(l, tasks.children[p][c]) < At(l, tasks.children[p][d])
\* The gantt was generated from a forest of three Tasks in which a Task
\* with a child is followed by a sibling.
C5_Witness ==
    /\ pc = "publish"
    /\ Len(gantt) = 3
    /\ gantt = to_pre_order_list(tasks)
    /\ tasks.parent[gantt[2]] = gantt[1]
    /\ tasks.parent[gantt[3]] = ROOT

\* C6 as claimed: giving the TaskList a parent fails, the TaskList stays a
\* root and the tree is as it was.
C6_RootAttemptLeavesTree ==
    [][op' # None =>
          /\ raised' # None
          /\ tasks'.parent[ROOT] = None
          /\ Tree(tasks') = Tree(tasks)]_vars
\* C6 amended: it fails and the TaskList stays a root without parent; the
\* tree is as it was when the attempt was an assignment of its parent.
C6_RootStaysRoot ==
    [][op' # None =>
          /\ raised' # None
          /\ tasks'.parent[ROOT] = None
          /\ (op' = "parent" => Tree(tasks') = Tree(tasks))]_vars
\* The root's hook refused a Task outside the forest as parent.
C6_Witness == op = "parent" /\ raised = "RuntimeError" /\ tasks.parent[ROOT] = None

\* C7: the Task of a ticket without progress value has completion 0.
C7_AbsentProgressIsZero ==
    \A k \in tasks.nodes :
        (config[project].progress = None \/ ~HasValue(issues[k].progress))
            => tasks.info[k].progress_in_percent = Num(0)

\* C8: a ticket B whose declared parent A is retained and processed before
\* it, and which no ticket lists among its subtasks, is in the returned
\* forest a child of A's Task and no top-level task; of two retained
\* tickets, the second declaring the first as parent and neither declaring
\* subtasks, the first is the only top-level task and the second its only
\* child.
C8_DeclaredParentAttached ==
    Returned =>
        /\ \A a, b \in Retained :
              (issues[b].parent = a /\ Pos(a) < Pos(b) /\ ~Listed(b)) =>
                  /\ tasks.parent[b] = a
                  /\ b \in Elems(tasks.children[a])
                  /\ b \notin Elems(tasks.children[ROOT])
        /\ (/\ Len(tickets) = 2
            /\ tickets[2].parent = tickets[1].key
            /\ tickets[1].subtasks = <<>>
            /\ tickets[2].subtasks = <<>>) =>
              /\ tasks.children[ROOT] = <<tickets[1].key>>
              /\ tasks.children[tickets[1].key] = <<tickets[2].key>>
              /\ tasks.children[tickets[2].key] = <<>>
\* The forest of two retained tickets, the second the child of the first.
C8_Witness ==
    /\ Returned
    /\ Len(tickets) = 2
    /\ tickets[2].parent = tickets[1].key
    /\ tasks.parent[tickets[2].key] = tickets[1].key

\* C9: with a project whose engine ChartEngine does not name, the run ends
\* with the validation error of the configuration and no ticket query is
\* made for any project.
C9_InvalidEngineBeforeQuery ==
    (\E n \in 1..Len(config) : config[n].engine \notin ChartEngine) =>
        /\ queries = <<>>
        /\ pc \in {"load", "exit"}
        /\ pc = "exit" => raised = "ValidationError"
\* The run ended for the engine of the second project, the first being valid.
C9_Witness ==
    /\ pc = "exit"
    /\ raised = "ValidationError"
    /\ Len(config) >= 2
    /\ config[1].engine \in ChartEngine
    /\ queries = <<>>

\* C10: the retained tickets are in ascending order of (start date, end
\* date), compared as the dates their values denote.
DateKeyLess(x, y) ==
    LET xs == isoparse(x.start.val)
        ys == isoparse(y.start.val)
    IN  \/ DateLess(xs, ys)
        \/ xs = ys /\ DateLess(isoparse(x.end.val), isoparse(y.end.val))
Parses(x) == isoparse(x.start.val).ok /\ isoparse(x.end.val).ok
C10_SortedByDate ==
    \A m, n \in 1..Len(tickets) :
        (m < n /\ Parses(tickets[m]) /\ Parses(tickets[n])) =>
            ~DateKeyLess(tickets[n], tickets[m])

\* The keys of the retained tickets in processing order.
Processed == [n \in 1..Len(tickets) |-> tickets[n].key]

\* C11 as claimed: the sequence handed to the template is the sequence of
\* the retained tickets in processing order.
C11_RenderingOrderIsSortedOrder == pc = "publish" => gantt = Processed
\* C11 amended: the sequence handed to the template holds the Task of every
\* retained ticket once, in pre-order of the forest: the top-level Tasks in
\* processing order, the descendants of each before the next top-level Task;
\* it is the processing order when every Task is top-level.
C11_RenderingOrderIsPreOrder ==
    pc = "publish" =>
        /\ Len(gantt) = Len(tickets)
        /\ Elems(gantt) = Retained
        /\ \A a, b \in Retained :
              (tasks.parent[a] = ROOT /\ tasks.parent[b] = ROOT /\ Pos(a) < Pos(b)) =>
                  /\ At(gantt, a) < At(gantt, b)
                  /\ \A d \in Retained :
                        a \in PathReverse(tasks, d) => At(gantt, d) < At(gantt, b)
        /\ (\A k \in Retained : tasks.parent[k] = ROOT) => gantt = Processed
\* A gantt of three Tasks whose second is the child of the first and was
\* processed last.
C11_Witness ==
    /\ pc = "publish"
    /\ Len(gantt) = 3
    /\ gantt # Processed
    /\ tasks.parent[gantt[2]] = gantt[1]
    /\ Pos(gantt[2]) = 3

\* A turn of the loop of _create_tasks_from_tickets for a ticket whose
\* dates parse.
BuildsTask == pc = "build" /\ index <= Len(tickets) /\ Parses(tickets[index])
\* The declared subtasks of the ticket the loop is at, and those of them
\* that have a Task already.
Declared == tickets[index].subtasks
Found == SelectSeq(Declared, LAMBDA k : k \in tasks.nodes)
\* The Task or TaskList that ticket's Task gets as parent.
Resolved ==
    IF tickets[index].parent \in tasks.nodes THEN tickets[index].parent ELSE ROOT

\* C12 as claimed: at the construction of a Task every declared subtask that
\* has a Task becomes its child and leaves its previous parent; declared
\* subtasks without Task are no children and raise no error.
C12_DeclaredChildrenAttached ==
    [][BuildsTask =>
          LET new == tickets[index].key
          IN  /\ \A k \in Elems(Found) :
                    /\ tasks'.parent[k] = new
                    /\ k \in Elems(tasks'.children[new])
                    /\ k \notin Elems(tasks'.children[tasks.parent[k]])
              /\ \A k \in Elems(Declared) \ Elems(Found) :
                    k \notin Elems(tasks'.children[new])
              /\ Found = <<>> => raised' = None]_vars
\* C12 amended: the construction fails with a TreeError when a declared
\* subtask that has a Task is declared twice, else with a LoopError when one
\* is the new Task's parent or an ancestor of it; when it does not fail, the
\* children of the new Task are the declared subtasks that have a Task, in
\* declared order, and none of them is a child of its previous parent.
C12_DeclaredChildrenUnlessLoop ==
    [][BuildsTask =>
          LET new == tickets[index].key
              twice == HasDuplicates(Found)
              loop == \E k \in Elems(Found) : k \in PathReverse(tasks, Resolved)
          IN  /\ raised' = IF twice THEN "TreeError" ELSE IF loop THEN "LoopError" ELSE None
              /\ raised' = None =>
                    /\ tasks'.children[new] = Found
                    /\ \A k \in Elems(Found) :
                          /\ tasks'.parent[k] = new
                          /\ k \notin Elems(tasks'.children[tasks.parent[k]])]_vars
\* A Task was built that took a child from the TaskList and dropped a
\* declared subtask that had no Task.
C12_Witness ==
    /\ pc = "build"
    /\ \E new \in tasks.nodes :
          /\ Len(tasks.children[new]) = 1
          /\ Len(issues[new].subtasks) = 2
          /\ issues[tasks.children[new][1]].parent # new
          /\ \E k \in Elems(issues[new].subtasks) : k \notin tasks.nodes

\* C13: with a retained ticket whose start or end value is no date, the
\* forest of the project is not returned, no gantt is generated and no page
\* is published for it; the run ends with the parse error at that ticket,
\* also when earlier tickets were built.
C13_ParseErrorAbortsProject ==
    (\E n \in 1..Len(tickets) : ~Parses(tickets[n])) =>
        /\ pc \in {"build", "exit"}
        /\ gantt = <<>>
        /\ \A stage \in {"build", "gantt", "publish"} : Event(project, stage) \notin Elems(events)
        /\ project \notin Elems(calls) \cup Elems(pages)
        /\ pc = "exit" =>
              /\ raised # None
              /\ ~Parses(tickets[index]) => raised = "ValueError"
\* The run ended with the parse error at the third ticket, two Tasks built.
C13_Witness ==
    /\ pc = "exit"
    /\ raised = "ValueError"
    /\ index = 3
    /\ Cardinality(tasks.nodes) = 2
    /\ ~Parses(tickets[index])

\* The stages of a project in the order of the loop's body, and the events
\* of a run over n projects that finishes.
Stages == <<"fetch", "build", "gantt", "publish">>
Schedule(n) ==
    [i \in 1..(Len(Stages) * n) |->
        Event(((i - 1) \div Len(Stages)) + 1, Stages[((i - 1) % Len(Stages)) + 1])]

\* C14: the stages finish project by project in configuration order, each
\* project's in the order fetch, build, gantt, publish, none of a project
\* before the publish of the project before it; the queries and the
\* publisher calls are made in that order too.
C14_OneProjectAtATime ==
    /\ Len(events) <= Len(Stages) * Len(config)
    /\ events = SubSeq(Schedule(Len(config)), 1, Len(events))
    /\ \A n \in 1..Len(queries) : queries[n] = n
    /\ \A n \in 1..Len(calls) : calls[n] = n
    /\ Len(calls) <= Len(queries)
    /\ pc = "done" => events = Schedule(Len(config))
\* A run over several projects finished every stage of each.
C14_Witness ==
    /\ pc = "done"
    /\ Len(config) >= 2
    /\ Len(events) = Len(Stages) * Len(config)
    /\ events[Len(Stages) + 1] = Event(2, "fetch")

\* The run ended with the failure of a stage of a project.
StageFailed == pc = "exit" /\ raised # "ValidationError"
Later == (project + 1)..Len(config)

ParentPageNotFound == "RuntimeError: Parent page not found"
C16_ParentPageNotFound ==
    /\ \A p \in Elems(calls) :
          (p \in remote.missing /\ ConfluenceEntry \in file) =>
              /\ raised = ParentPageNotFound
              /\ pc = "exit"
              /\ p \notin Elems(pages)
    /\ \A p \in Elems(pages) : p \notin remote.missing
    /\ raised = ParentPageNotFound => project \in remote.missing /\ project \in Elems(calls)
\* The page of the first project was written, the parent page of the second
\* was not found.
C16_Witness ==
    /\ raised = ParentPageNotFound
    /\ calls = <<1, 2>>
    /\ pages = <<1>>
    /\ 2 \in remote.missing

\* C17: without a Confluence server in the configuration no create_new_page
\* call is made, and a run the queries and the dates do not stop generates
\* the gantt of every project.
C17_NoPublisherCallWithoutServer ==
    ConfluenceEntry \notin file =>
        /\ calls = <<>>
        /\ (pc = "exit" /\ raised \notin {"ValidationError", "HTTPError", "ValueError"}) =>
              \A n \in 1..Len(config) : Event(n, "gantt") \in Elems(events)

\* The custom fields of the Jira server that carry a name, by position.
Named(name) == {i \in 1..Len(remote.custom_fields) : remote.custom_fields[i].name = name}
\* What the claim says of a name: the identifier of the first custom field
\* that carries it, the name itself when none does.
Canonical(name) ==
    IF Named(name) = {} THEN name
    ELSE remote.custom_fields[CHOOSE i \in Named(name) : \A j \in Named(name) : i <= j].id

\* C18: when the configuration is loaded, the start date, the end date and
\* the progress (if any) of every project become the identifier of the first
\* custom field that has that name, and stay as they are when no custom
\* field has that name; nothing else of the project changes.
C18_CustomFieldIdFromName ==
    [][(pc = "load" /\ pc' = "fetch") =>
          /\ Len(config') = Len(config)
          /\ \A n \in 1..Len(config) :
                /\ config'[n].start_date = Canonical(config[n].start_date)
                /\ config'[n].end_date = Canonical(config[n].end_date)
                /\ config'[n].progress =
                      IF config[n].progress = None THEN None
                      ELSE Canonical(config[n].progress)
                /\ config'[n].engine = config[n].engine
                /\ config'[n].link = config[n].link]_vars
\* Two custom fields carry the name of the start date: the identifier of the
\* first one was taken, and the end date's identifier stayed.
C18_Witness ==
    /\ pc = "fetch"
    /\ Len(remote.custom_fields) = 2
    /\ remote.custom_fields[1].name = "Start date"
    /\ remote.custom_fields[2].name = "Start date"
    /\ remote.custom_fields[1].id # remote.custom_fields[2].id
    /\ config[1].start_date = remote.custom_fields[1].id
    /\ config[1].end_date = "duedate"

\* C19: from the return of _create_tasks_from_tickets to the end of the
\* project's turn no step changes a Task's fields, its parent or its
\* children, or the set of Tasks.
C19_ForestNotMutated ==
    [][(Returned /\ project' = project) => tasks' = tasks]_vars
\* The report of a forest with a nested Task was generated and published,
\* the forest being what was returned.
C19_Witness ==
    /\ pc = "done"
    /\ pages = <<1>>
    /\ gantt = to_pre_order_list(tasks)
    /\ \E k \in tasks.nodes : tasks.parent[k] \in Keys /\ tasks.info[k].blocking_tasks # <<>>

\* C20: a configuration file that lacks a mandatory entry, the empty file
\* included, is refused when it is loaded: the run ends with the validation
\* error and nothing is done with the configuration.
C20_MandatoryEntries ==
    (\E e \in Mandatory(Len(config)) : e \notin file) =>
        /\ pc \in {"load", "exit"}
        /\ pc = "exit" => raised = "ValidationError"
        /\ queries = <<>>
        /\ events = <<>>
\* The file of valid projects lacked the end date of the last and was refused.
C20_Witness ==
    /\ pc = "exit"
    /\ raised = "ValidationError"
    /\ ModelValidate(config)
    /\ Mandatory(Len(config)) \ file = {Entry(Len(config), "fields.end_date")}

\* The nodes whose child list holds a node, and the places of a node in the
\* pre-order of the forest.
ParentsOf(k) == {p \in Nodes : k \in Elems(tasks.children[p])}
Places(k) == {n \in 1..Len(PreOrder(tasks, ROOT)) : PreOrder(tasks, ROOT)[n] = k}

C27_OneTaskPerKey ==
    Returned =>
        /\ tasks.nodes = Retained
        /\ Forest = Retained
        /\ Len(to_pre_order_list(tasks)) = Len(tickets)
        /\ \A k \in Keys \cup {Foreign} :
              IF k \in Retained
              THEN Cardinality(Places(k)) = 1 /\ find_task_by_key(tasks, k) = k
              ELSE Places(k) = {} /\ find_task_by_key(tasks, k) = None
\* A forest of two Tasks, one under the other, was returned for a batch
\* from which a ticket was dropped.
C27_Witness ==
    /\ Returned
    /\ Len(tickets) = 2
    /\ \E k \in Retained : tasks.parent[k] \in Retained
    /\ \E k \in Keys : k \notin Retained /\ find_task_by_key(tasks, k) = None

\* A found subtask is declared twice; a found subtask is the parent the
\* ticket resolves or an ancestor of it.
Twice == Cardinality(Elems(Found)) < Len(Found)
Loops == \E k \in Elems(Found) : k \in PathReverse(tasks, Resolved)
AllParse == \A n \in 1..Len(tickets) : Parses(tickets[n])
TreeErrors == {"LoopError", "TreeError", "RuntimeError", "ValueError"}

\* C28 as claimed: for a batch whose dates all parse, the construction
\* raises nothing, whatever parents and subtasks are declared.
C28_ConstructionNeverRaises == AllParse => raised \notin TreeErrors
\* C28 amended: for a batch whose dates all parse, the turn of a ticket
\* raises exactly when a found subtask is declared twice or is the resolved
\* parent or an ancestor of it, and then the run ends; no batch raises in
\* which the tickets that declare subtasks declare no parent and no subtask
\* twice.
C28_RaisesOnlyOnLoopOrTwice ==
    [][(BuildsTask /\ AllParse) =>
          /\ (raised' # None) <=> (Twice \/ Loops)
          /\ raised' # None => pc' = "exit" /\ raised' \in {"LoopError", "TreeError"}
          /\ (\A n \in 1..Len(tickets) :
                 tickets[n].subtasks # <<>> =>
                     /\ tickets[n].parent = None
                     /\ ~HasDuplicates(tickets[n].subtasks)) => raised' = None]_vars
\* The construction ended with a LoopError at the third ticket, and
\* elsewhere with a TreeError.
C28_Witness ==
    /\ AllParse
    /\ pc = "exit"
    /\ raised \in {"LoopError", "TreeError"}
    /\ index = 3
    /\ raised = "TreeError" <=> Len(tickets[index].subtasks) = 2 /\ tickets[index].parent = None

\* C29: in a returned forest, a Task that is the child of a Task declared
\* that Task as its parent or is declared by it as a subtask.
C29_EdgesAreDeclared ==
    Returned =>
        \A a \in tasks.nodes :
            tasks.parent[a] \in Keys =>
                \/ issues[a].parent = tasks.parent[a]
                \/ a \in Elems(issues[tasks.parent[a]].subtasks)
\* A returned forest with a child by its declared parent only and a child
\* by its parent's declared subtasks only.
C29_Witness ==
    /\ Returned
    /\ \E a \in tasks.nodes :
          /\ tasks.parent[a] \in Keys
          /\ issues[a].parent = tasks.parent[a]
          /\ a \notin Elems(issues[tasks.parent[a]].subtasks)
    /\ \E a \in tasks.nodes :
          /\ tasks.parent[a] \in Keys
          /\ issues[a].parent = None
          /\ a \in Elems(issues[tasks.parent[a]].subtasks)

\* C30: in every state the children of the TaskList are in the order in
\* which their tickets were processed.
C30_TopLevelInProcessingOrder ==
    \A m, n \in 1..Len(tasks.children[ROOT]) :
        m < n => Pos(tasks.children[ROOT][m]) < Pos(tasks.children[ROOT][n])
\* The first of three Tasks was moved from the TaskList under the second;
\* the second and the third are the top-level tasks.
C30_Witness ==
    /\ Len(tickets) = 3
    /\ tasks.children[ROOT] = <<tickets[2].key, tickets[3].key>>
    /\ tasks.parent[tickets[1].key] = tickets[2].key
    /\ issues[tickets[1].key].parent # tickets[2].key

\* ---------------------------------------------------------------------
\* The functions of the package called on their own: load_global_config,
\* the two client constructors, keys_exists. call is the call that was
\* made, result what it returned or raised; the functions keep no state, so
\* a behaviour is one call.

Bool(b) == [kind |-> "bool", val |-> b]
\* A member of the enumeration ChartEngine, by its value.
Member(v) == [kind |-> "ChartEngine", val |-> v]
\* An HttpUrl, by its text.
Url(text) == [kind |-> "HttpUrl", val |-> text]

\* The entries of a one-project configuration that a file may leave out or
\* that no model declares (Report/Model), and the values a file gives them.
OptionalPaths == {"server.confluence", "report.engine", "report.legend",
                  "report.model", "fields.progress", "fields.link"}
Choices(path) ==
    CASE path = "server.confluence" ->
            {Str("https://confluence.example/wiki"), Str("https://confluence.example"),
             Str("My confluence url")}
      [] path = "report.engine" -> {Str(CONFLUENCE), Str(PLANT_UML), Str("Mermaid")}
      [] path = "report.legend" -> {Bool(TRUE), Bool(FALSE), Str("yes")}
      [] path = "report.model" -> {Str("model.puml")}
      [] path = "fields.progress" -> {Str("Progress")}
      [] path = "fields.link" -> {Str("blocks")}
Given(path) == Choices(path) \cup {Absent}
\* The dictionaries a parser returns: every mandatory entry, and each other
\* entry given or not.
Dicts ==
    {[path \in OptionalPaths |->
        CASE path = "server.confluence" -> c
          [] path = "report.engine" -> e
          [] path = "report.legend" -> l
          [] path = "report.model" -> m
          [] path = "fields.progress" -> p
          [] path = "fields.link" -> k] :
     c \in Given("server.confluence"), e \in Given("report.engine"),
     l \in Given("report.legend"), m \in Given("report.model"),
     p \in Given("fields.progress"), k \in Given("fields.link")}

\* HttpUrl: a text with a scheme and a host; a URL without a path gets the
\* path "/".
IsHttpUrl(v) == v.val \in {"https://confluence.example/wiki", "https://confluence.example"}
HttpUrl(v) ==
    IF v.val = "https://confluence.example" THEN Url("https://confluence.example/")
    ELSE Url(v.val)
\* str(url), engine.value, the value itself: what a reader of the entry gets
\* to compare with the text of the file.
Shown(v) == IF v.kind \in {"HttpUrl", "ChartEngine"} THEN Str(v.val) ELSE v

\* The fields the models Server, Report and Fields declare with a default.
ModelFields == OptionalPaths \ {"report.model"}
\* (DefaultsWithoutLegend: legend has no default.)
DefaultsWithoutLegend(path) ==
    CASE path = "server.confluence" -> Null
      [] path = "report.engine" -> Member(CONFLUENCE)
      [] path = "report.legend" -> Absent
      [] path = "fields.progress" -> Null
      [] path = "fields.link" -> Str("is blocked by")
Default(path) ==
    CASE path = "server.confluence" -> Null
      [] path = "report.engine" -> Member(CONFLUENCE)
      [] path = "report.legend" -> Bool(FALSE)
      [] path = "fields.progress" -> Null
      [] path = "fields.link" -> Str("is blocked by")
\* The value of a field accepts what the file gives.
Accepts(path, v) ==
    CASE path = "server.confluence" -> IsHttpUrl(v)
      [] path = "report.engine" -> ValidEngine(v.val)
      [] path = "report.legend" -> v.kind = "bool"
      [] OTHER -> v.kind = "str"
Validated(path, v) ==
    CASE path = "server.confluence" -> HttpUrl(v)
      [] path = "report.engine" -> Member(v.val)
      [] OTHER -> v
NoValue == [path \in {} |-> Null]
\* Config.model_validate: ValidationError for a value a field does not
\* accept; a default for a field not given; an entry no model declares is
\* ignored.
\* (model_validate_engine_plantuml: a missing engine becomes PlantUML.)
model_validate_engine_plantuml(d) ==
    IF \E path \in ModelFields : d[path] # Absent /\ ~Accepts(path, d[path])
    THEN [raised |-> "ValidationError", value |-> NoValue]
    ELSE [raised |-> None,
          value |-> [path \in ModelFields |->
                        IF d[path] = Absent
                        THEN IF path = "report.engine" THEN Member(PLANT_UML) ELSE Default(path)
                        ELSE Validated(path, d[path])]]
model_validate(d) ==
    IF \E path \in ModelFields : d[path] # Absent /\ ~Accepts(path, d[path])
    THEN [raised |-> "ValidationError", value |-> NoValue]
    ELSE [raised |-> None,
          value |-> [path \in ModelFields |->
                        IF d[path] = Absent THEN Default(path) ELSE Validated(path, d[path])]]
\* The attribute of a loaded configuration: AttributeError for a name no
\* model declares.
Read(value, path) == IF path \in DOMAIN value THEN value[path] ELSE Str("AttributeError")

\* A configuration file: missing, not in the syntax of its parser, or
\* holding a dictionary.
NoDict == [path \in OptionalPaths |-> Absent]
Contents ==
    {[kind |-> "missing", given |-> NoDict], [kind |-> "garbled", given |-> NoDict]}
    \cup {[kind |-> "dict", given |-> d] : d \in Dicts}
\* Path(config_file).suffix
Suffixes == {".yaml", ".yml", ".json", ".test", ".YAML", ""}
Failed(e, opened, parser) ==
    [raised |-> e, opened |-> opened, parser |-> parser, value |-> NoValue]
\* _parse_yaml_config / _parse_json_config, then Secrets() and
\* Config.model_validate.
parse_and_validate(parser, content, env) ==
    IF content.kind = "missing" THEN Failed("FileNotFoundError", TRUE, None)
    ELSE IF content.kind = "garbled"
    THEN Failed(IF parser = "yaml" THEN "ValueError: Failed to parse YAML configuration"
                ELSE "ValueError: Failed to parse JSON configuration", TRUE, parser)
    ELSE IF ~env THEN Failed("ValidationError", TRUE, parser)
    ELSE LET v == model_validate(content.given)
         IN  [raised |-> v.raised, opened |-> TRUE, parser |-> parser, value |-> v.value]
\* load_global_config
\* (load_as_yaml: every file goes to the YAML parser.)
load_as_yaml(suffix, content, env) == parse_and_validate("yaml", content, env)
load_global_config(suffix, content, env) ==
    IF suffix \in {".yaml", ".yml"} THEN parse_and_validate("yaml", content, env)
    ELSE IF suffix = ".json" THEN parse_and_validate("json", content, env)
    ELSE Failed("ValueError: Unknown file extension for configuration", FALSE, None)

\* JiraClient(url, username, password), ConfluenceClient(url, username,
\* password): the first empty argument is named; fails: the constructor of
\* the Atlassian client raises.
Invalid(kind, argument) ==
    CASE kind = "Jira" /\ argument = "URL" -> "Jira URL is invalid"
      [] kind = "Jira" /\ argument = "username" -> "Jira username is invalid"
      [] kind = "Jira" /\ argument = "password" -> "Jira password is invalid"
      [] kind = "Confluence" /\ argument = "URL" -> "Confluence URL is invalid"
      [] kind = "Confluence" /\ argument = "username" -> "Confluence username is invalid"
      [] kind = "Confluence" /\ argument = "password" -> "Confluence password is invalid"
Thrown(type, msg) == [raised |-> type, msg |-> msg, created |-> FALSE]
\* (client_init_password_first: the password is looked at first.)
client_init_password_first(kind, url, username, password, fails) ==
    IF password = "" THEN Thrown("ValueError", Invalid(kind, "password"))
    ELSE IF url = "" THEN Thrown("ValueError", Invalid(kind, "URL"))
    ELSE IF username = "" THEN Thrown("ValueError", Invalid(kind, "username"))
    ELSE IF fails
    THEN Thrown("RuntimeError", IF kind = "Jira" THEN "Failed to create Jira client"
                                ELSE "Failed to create Confluence client")
    ELSE [raised |-> None, msg |-> None, created |-> TRUE]
client_init(kind, url, username, password, fails) ==
    IF url = "" THEN Thrown("ValueError", Invalid(kind, "URL"))
    ELSE IF username = "" THEN Thrown("ValueError", Invalid(kind, "username"))
    ELSE IF password = "" THEN Thrown("ValueError", Invalid(kind, "password"))
    ELSE IF fails
    THEN Thrown("RuntimeError", IF kind = "Jira" THEN "Failed to create Jira client"
                                ELSE "Failed to create Confluence client")
    ELSE [raised |-> None, msg |-> None, created |-> TRUE]
Urls == {"", "https://server.example", "None"}
Usernames == {"", "user"}
Passwords == {"", "token"}

\* The arguments of keys_exists: an element, which is None, a string or a
\* dictionary whose values are None, strings or dictionaries of None and
\* strings, and up to MaxKeys keys.
MaxKeys == 2
KeyNames == {"Key", "Nested key"}
Searched == KeyNames \cup {"New key"}
NoItems == [k \in KeyNames |-> Absent]
Leaf(kind) == [kind |-> kind, items |-> NoItems]
Leaves == {Leaf("none"), Leaf("str")}
Dict(items) == [kind |-> "dict", items |-> items]
Inner == {Dict(f) : f \in [KeyNames -> Leaves \cup {Absent}]}
Elements == Leaves \cup {Dict(f) : f \in [KeyNames -> Leaves \cup Inner \cup {Absent}]}
KeyLists == SeqsUpTo(Searched, MaxKeys)
\* _element[key]: KeyError for a key a dictionary does not have, TypeError
\* when the element is not a dictionary.
Subscript(element, key) ==
    IF element.kind # "dict" THEN [raised |-> "TypeError", value |-> element]
    ELSE IF key \notin KeyNames \/ element.items[key] = Absent
    THEN [raised |-> "KeyError", value |-> element]
    ELSE [raised |-> None, value |-> element.items[key]]
\* The loop of keys_exists: False on KeyError, any other exception leaves
\* the function.
RECURSIVE follow_keys(_, _)
follow_keys(element, keys) ==
    IF keys = <<>> THEN [raised |-> None, returned |-> TRUE]
    ELSE LET step == Subscript(element, Head(keys))
         IN  IF step.raised = "KeyError" THEN [raised |-> None, returned |-> FALSE]
             ELSE IF step.raised # None THEN [raised |-> step.raised, returned |-> FALSE]
             ELSE follow_keys(step.value, Tail(keys))
keys_exists(element, keys) ==
    IF element.kind # "dict" THEN [raised |-> "AttributeError", returned |-> FALSE]
    ELSE IF Len(keys) = 0 THEN [raised |-> "AttributeError", returned |-> FALSE]
    ELSE follow_keys(element, keys)

LoadGlobalConfigCall ==
    /\ call = NoCall
    /\ \E suffix \in Suffixes, content \in Contents, env \in BOOLEAN :
          /\ call' = [name |-> "load_global_config", suffix |-> suffix,
                      content |-> content, env |-> env]
          /\ result' = load_global_config(suffix, content, env)
    /\ UNCHANGED run

ClientInit ==
    /\ call = NoCall
    /\ \E kind \in {"Jira", "Confluence"}, url \in Urls, username \in Usernames,
          password \in Passwords, fails \in BOOLEAN :
          /\ call' = [name |-> "client", kind |-> kind, url |-> url,
                      username |-> username, password |-> password, fails |-> fails]
          /\ result' = client_init(kind, url, username, password, fails)
    /\ UNCHANGED run

KeysExists ==
    /\ call = NoCall
    /\ \E element \in Elements, keys \in KeyLists :
          /\ call' = [name |-> "keys_exists", element |-> element, keys |-> keys]
          /\ result' = keys_exists(element, keys)
    /\ UNCHANGED run

InitCalls == Start(Input(<<DefaultProject>>, PlainBatch))

NextCalls ==
    \/ LoadGlobalConfigCall
    \/ ClientInit
    \/ KeysExists

SpecCalls == InitCalls /\ [][NextCalls]_vars

Loaded == call.name = "load_global_config" /\ result.raised = None

C22_LegendDefaultsToFalse ==
    (/\ call.name = "load_global_config"
     /\ result.opened
     /\ call.content.kind = "dict"
     /\ call.env
     /\ call.content.given["report.legend"] = Absent
     /\ \A path \in ModelFields \ {"report.legend"} :
           call.content.given[path] # Absent => Accepts(path, call.content.given[path]))
    => /\ result.raised = None
       /\ Read(result.value, "report.legend") = Bool(FALSE)
\* A file with every optional entry but the legend was loaded.
C22_Witness ==
    /\ Loaded
    /\ \A path \in OptionalPaths :
          (call.content.given[path] = Absent) <=> (path = "report.legend")
    /\ Read(result.value, "report.legend") = Bool(FALSE)

\* C23: load_global_config for a suffix other than .yaml, .yml and .json
\* raises ValueError without opening or parsing the file; .yaml and .yml go
\* to the YAML parser, .json to the JSON parser.
C23_ParserBySuffix ==
    call.name = "load_global_config" =>
        IF call.suffix \in {".yaml", ".yml"}
        THEN result.opened /\ (call.content.kind # "missing" => result.parser = "yaml")
        ELSE IF call.suffix = ".json"
        THEN result.opened /\ (call.content.kind # "missing" => result.parser = "json")
        ELSE /\ result.raised = "ValueError: Unknown file extension for configuration"
             /\ ~result.opened
             /\ result.parser = None
\* A file named config.test that holds a valid configuration was refused.
C23_Witness ==
    /\ call.name = "load_global_config"
    /\ call.suffix = ".test"
    /\ call.content.kind = "dict"
    /\ model_validate(call.content.given).raised = None
    /\ result.raised = "ValueError: Unknown file extension for configuration"
    /\ ~result.opened

\* C24: a client constructor given an empty URL, username or password
\* raises ValueError naming the first empty one in the order URL, username,
\* password, and creates no Atlassian client.
C24_FirstEmptyArgumentNamed ==
    (call.name = "client" /\ "" \in {call.url, call.username, call.password}) =>
        /\ result.raised = "ValueError"
        /\ ~result.created
        /\ result.msg = Invalid(call.kind,
                                IF call.url = "" THEN "URL"
                                ELSE IF call.username = "" THEN "username" ELSE "password")
\* The username and the password were empty; the username was named.
C24_Witness ==
    /\ call.name = "client"
    /\ call.url # ""
    /\ call.username = ""
    /\ call.password = ""
    /\ result.msg = Invalid(call.kind, "username")
    /\ ~result.created

\* Following the keys through the nested values succeeds.
RECURSIVE Follows(_, _)
Follows(element, keys) ==
    \/ keys = <<>>
    \/ /\ element.kind = "dict"
       /\ Head(keys) \in KeyNames
       /\ element.items[Head(keys)] # Absent
       /\ Follows(element.items[Head(keys)], Tail(keys))

\* C25: keys_exists raises when the element is not a dict or no key is
\* given; otherwise it returns True when following the keys succeeds and
\* False in every other case.
C25_KeysExists ==
    call.name = "keys_exists" =>
        IF call.element.kind # "dict" \/ call.keys = <<>>
        THEN result.raised # None
        ELSE /\ result.raised = None
             /\ result.returned = Follows(call.element, call.keys)

====
